---- MODULE Spec2Model ----
(***************************************************************************)
(* OCuLaR (common/ocular.cc): the host side of the OpenCL router.          *)
(* OcularRouter::operator() runs build_graph, import_nets and              *)
(* alloc_buffers in sequence and returns true.  The architecture (ctx) is  *)
(* the environment: it is drawn in Init and only changed by ripupNet.      *)
(*                                                                         *)
(* C++ vectors are modelled as sequences read through At(v, k), the        *)
(* element at the C++ index k (from 0), so that indices read as in the     *)
(* source.                                                                 *)
(***************************************************************************)
EXTENDS Integers, Sequences, FiniteSets, TLC

\* ------------------------------------------------------------- bounds
MaxWires == 2
MaxPips == 2
MaxNets == 2
MaxUsers == 2
MaxDim == 2
MaxSlots == 2
MaxCounts == 3

\* -------------------------------------------------- program constants
delay_scale == 1000
inf_cost == 134217727
max_nets_in_flight == 32
STRENGTH_STRONG == 2

\* Delays are multiples of 1/DelayDen ns: such floats, their sums and
\* their products with delay_scale are exact in binary32 for the small
\* values used here, so float arithmetic is modelled by exact rationals.
DelayDen == 2 ^ 5
Delays == {1, 2}
Strengths == {STRENGTH_STRONG, STRENGTH_STRONG + 1}

NoWire == 0
NoPip == -1

\* ------------------------------------------------------ vector helpers
Size(v) == Len(v)
EmptyVec == <<>>
EmptyMap == [k \in {} |-> 0]
At(v, k) == v[k + 1]
SetAt(v, k, x) == [v EXCEPT ![k + 1] = x]
Indices(v) == 0..(Len(v) - 1)
PushBack(v, x) == Append(v, x)
\* resize() value-initialises the elements it adds.
Resize(v, n) == [k \in 1..n |-> IF k <= Len(v) THEN v[k] ELSE 0]
Fill(v, x) == [k \in DOMAIN v |-> x]
Max(a, b) == IF a >= b THEN a ELSE b
Min(a, b) == IF a <= b THEN a ELSE b

\* C++ integer division and float-to-int conversion truncate toward zero.
TruncDiv(a, b) == IF a >= 0 THEN a \div b ELSE -((-a) \div b)

\* Conversions to the element types of the buffers.
ToInt16(v) == ((v + 32768) % 65536) - 32768
ToUInt8(v) == v % 256

\* T = uint32_t for the count buffers: sums wrap at 2^32.  A number is kept
\* as hi * 2^16 + lo with 0 <= lo < 2^16; a uint32_t also has hi < 2^16.
Half == 2 ^ 16
U32(hi, lo) == [hi |-> hi, lo |-> lo]
Zero == U32(0, 0)
\* a + b, exactly
Plus(a, b) == [hi |-> a.hi + b.hi + ((a.lo + b.lo) \div Half), lo |-> (a.lo + b.lo) % Half]
\* a <= b and a < b for numbers with hi < 2^16
LessEq(a, b) == a.hi < b.hi \/ (a.hi = b.hi /\ a.lo <= b.lo)
Less(a, b) == LessEq(a, b) /\ a # b
\* conversion to uint32_t: the value modulo 2^32
ToUInt32(v) == [hi |-> v.hi % Half, lo |-> v.lo]

VARIABLES
    ctx,            \* the architecture and netlist (Context)
    wire_x, wire_y, adj_offset, edge_dst_index, edge_cost, edge_pip,
    wire_data, wire_to_index, width, height,
    current_cost, uphill_edge, bound_count,
    nd,             \* import_nets' local PerNetData, as its latest iteration left it
    net_fixed,      \* history: nd.fixed_routing of each net imported so far
    buffers,        \* sizes of the scratch queues and tables alloc_buffers sets
    grid2net, net_slots,
    pc,             \* position in operator()
    i,              \* loop counter of the running loop
    ret,            \* return value of operator(), "none" until it returns
    flight,         \* scheduler: the bounding box of each net in flight
    call,           \* the latest call of check_region or mark_region: caller, arguments, result
    queue_count,    \* the contents of a per-workgroup count buffer (near_queue_count_a)
    sum_call        \* the latest call of prefix_sum on it: count, returned value, how it ended

vars == <<ctx, wire_x, wire_y, adj_offset, edge_dst_index, edge_cost, edge_pip,
          wire_data, wire_to_index, width, height, current_cost, uphill_edge,
          bound_count, nd, net_fixed, buffers, grid2net, net_slots, pc, i, ret,
          flight, call, queue_count, sum_call>>

\* ------------------------------------------------- architecture queries
\* A wire sits in one tile; getRouteBoundingBox(w, w) is that tile.
WireTileX(w) == (w - 1) % MaxDim
WireTileY(w) == ((w - 1) \div MaxDim) % MaxDim
getRouteBoundingBox(c, w) == c.box[w]
getPipDstWire(c, p) == At(c.pips, p).dst
checkPipAvail(c, p) == At(c.pips, p).avail
checkWireAvail(c, w) == c.wavail[w]
\* gowin: getDelayNS(v) = v; delays are kept in units of 1/DelayDen ns.
getDelayNS(v) == v
getPipDelay(c, p) == At(c.pips, p).delay
getWireDelay(c, w) == c.wdelay[w]

\* getPipsDownhill(w): the pips leaving w, in database order.
RECURSIVE PipsFrom(_, _, _)
PipsFrom(c, w, p) ==
    IF p >= Size(c.pips) THEN <<>>
    ELSE IF At(c.pips, p).src = w THEN <<p>> \o PipsFrom(c, w, p + 1)
    ELSE PipsFrom(c, w, p + 1)
getPipsDownhill(c, w) == PipsFrom(c, w, 0)

\* ---------------------------------------------------------- build_graph
\* (mutant) the cost rounded to the nearest integer instead of truncated
BaseCost_Rounded(c, p, dst) ==
    ((getDelayNS(getPipDelay(c, p)) + getDelayNS(getWireDelay(c, dst))) * delay_scale * 2
        + DelayDen) \div (2 * DelayDen)

\* int((getDelayNS(pip) + getDelayNS(wire)) * delay_scale)
BaseCost(c, p, dst) ==
    TruncDiv((getDelayNS(getPipDelay(c, p)) + getDelayNS(getWireDelay(c, dst))) * delay_scale,
             DelayDen)

\* (mutant) the index is taken after the wire is appended: indices start at 1
RECURSIVE IndexWires_AfterPush(_, _, _)
IndexWires_AfterPush(c, k, r) ==
    IF k >= Size(c.wires) THEN r
    ELSE LET wire == At(c.wires, k)
             wire_loc == getRouteBoundingBox(c, wire)
             cx == ToInt16(TruncDiv(wire_loc.x0 + wire_loc.x1, 2))
             cy == ToInt16(TruncDiv(wire_loc.y0 + wire_loc.y1, 2))
         IN  IndexWires_AfterPush(c, k + 1,
                 [wire_x |-> PushBack(r.wire_x, cx),
                  wire_y |-> PushBack(r.wire_y, cy),
                  wire_to_index |-> [w \in DOMAIN r.wire_to_index \cup {wire} |->
                                        IF w = wire THEN Size(r.wire_data) + 1
                                        ELSE r.wire_to_index[w]],
                  wire_data |-> PushBack(r.wire_data, [w |-> wire]),
                  width |-> Max(wire_loc.x1 + 1, r.width),
                  height |-> Max(wire_loc.y1 + 1, r.height)])

\* The first loop of build_graph, from the k-th wire of ctx->getWires() on:
\* r holds wire_x, wire_y, wire_data, wire_to_index, width and height.
RECURSIVE IndexWires(_, _, _)
IndexWires(c, k, r) ==
    IF k >= Size(c.wires) THEN r
    ELSE LET wire == At(c.wires, k)
             wire_loc == getRouteBoundingBox(c, wire)
             cx == ToInt16(TruncDiv(wire_loc.x0 + wire_loc.x1, 2))
             cy == ToInt16(TruncDiv(wire_loc.y0 + wire_loc.y1, 2))
         IN  IndexWires(c, k + 1,
                 [wire_x |-> PushBack(r.wire_x, cx),
                  wire_y |-> PushBack(r.wire_y, cy),
                  wire_to_index |-> [w \in DOMAIN r.wire_to_index \cup {wire} |->
                                        IF w = wire THEN Size(r.wire_data)
                                        ELSE r.wire_to_index[w]],
                  wire_data |-> PushBack(r.wire_data, [w |-> wire]),
                  width |-> Max(wire_loc.x1 + 1, r.width),
                  height |-> Max(wire_loc.y1 + 1, r.height)])

\* (mutant) the destination wire's availability is not looked at
SkipPip_PipOnly(c, p) == ~checkPipAvail(c, p)

\* The two "continue"s of the inner loop: an unavailable pip, or an available
\* pip whose destination wire is unavailable, makes no edge.
SkipPip(c, p) ==
    IF ~checkPipAvail(c, p) THEN TRUE
    ELSE ~checkWireAvail(c, getPipDstWire(c, p))

\* The inner loop of build_graph over the downhill pips ps (from position k)
\* of one wire; g holds adj_offset and the three edge vectors, w2i is
\* wire_to_index.
RECURSIVE AddEdges(_, _, _, _, _)
AddEdges(c, w2i, ps, k, g) ==
    IF k > Len(ps) THEN g
    ELSE LET p == ps[k]
             dst == getPipDstWire(c, p)
         IN  IF SkipPip(c, p) THEN AddEdges(c, w2i, ps, k + 1, g)
             ELSE AddEdges(c, w2i, ps, k + 1,
                           [g EXCEPT !.cost = PushBack(g.cost, BaseCost(c, p, dst)),
                                     !.dst = PushBack(g.dst, w2i[dst]),
                                     !.pip = PushBack(g.pip, p)])

\* The second loop of build_graph, from wire index n on: the CSR rows.
RECURSIVE BuildAdj(_, _, _, _)
BuildAdj(c, r, n, g) ==
    IF n >= Size(r.wire_data) THEN g
    ELSE LET w == At(r.wire_data, n).w
             g1 == [g EXCEPT !.adj_offset = SetAt(g.adj_offset, n, Size(g.dst))]
         IN  BuildAdj(c, r, n + 1,
                      AddEdges(c, r.wire_to_index, getPipsDownhill(c, w), 1, g1))

\* (mutant) the final offset is never written
FinalOffset_Missing(offsets, W, E) == offsets

\* adj_offset.at(wire_data.size()) = edge_dst_index.size()
FinalOffset(offsets, W, E) == SetAt(offsets, W, E)

\* build_graph() from the router's fields rt: both loops, the final offset and
\* the per-wire state vectors.
BuildGraphResult(c, rt) ==
    LET r == IndexWires(c, 0,
                 [wire_x |-> rt.wire_x, wire_y |-> rt.wire_y, wire_data |-> rt.wire_data,
                  wire_to_index |-> rt.wire_to_index, width |-> rt.width,
                  height |-> rt.height])
        W == Size(r.wire_data)
        g == BuildAdj(c, r, 0,
                 [adj_offset |-> Resize(rt.adj_offset, W + 1), cost |-> rt.edge_cost,
                  dst |-> rt.edge_dst_index, pip |-> rt.edge_pip])
    IN  [wire_x |-> r.wire_x, wire_y |-> r.wire_y, wire_data |-> r.wire_data,
         wire_to_index |-> r.wire_to_index, width |-> r.width, height |-> r.height,
         adj_offset |-> FinalOffset(g.adj_offset, W, Size(g.dst)),
         edge_cost |-> g.cost, edge_dst_index |-> g.dst, edge_pip |-> g.pip,
         current_cost |-> Fill(Resize(rt.current_cost, W), inf_cost),
         uphill_edge |-> Resize(rt.uphill_edge, W),
         bound_count |-> Resize(rt.bound_count, W)]

\* The router's fields that build_graph writes.
GraphFields ==
    [wire_x |-> wire_x, wire_y |-> wire_y, wire_data |-> wire_data,
     wire_to_index |-> wire_to_index, width |-> width, height |-> height,
     adj_offset |-> adj_offset, edge_cost |-> edge_cost,
     edge_dst_index |-> edge_dst_index, edge_pip |-> edge_pip,
     current_cost |-> current_cost, uphill_edge |-> uphill_edge,
     bound_count |-> bound_count]

build_graph ==
    /\ pc = "build_graph"
    /\ \E g \in {BuildGraphResult(ctx, GraphFields)} :
           /\ wire_x' = g.wire_x
           /\ wire_y' = g.wire_y
           /\ wire_data' = g.wire_data
           /\ wire_to_index' = g.wire_to_index
           /\ width' = g.width
           /\ height' = g.height
           /\ adj_offset' = g.adj_offset
           /\ edge_cost' = g.edge_cost
           /\ edge_dst_index' = g.edge_dst_index
           /\ edge_pip' = g.edge_pip
           /\ current_cost' = g.current_cost
           /\ uphill_edge' = g.uphill_edge
           /\ bound_count' = g.bound_count
    /\ pc' = "import_nets"
    /\ UNCHANGED <<ctx, nd, net_fixed, buffers, grid2net, net_slots, i, ret, flight, call,
                   queue_count, sum_call>>

\* ---------------------------------------------------------- import_nets
getNetinfoSinkWire(ni, usr) == usr.wire
getBelLocation(cell) == cell.loc

\* ArcBounds::extend(loc)
Extend(bb, loc) ==
    [x0 |-> Min(bb.x0, loc.x), y0 |-> Min(bb.y0, loc.y),
     x1 |-> Max(bb.x1, loc.x), y1 |-> Max(bb.y1, loc.y)]

\* bb.extend over the users from the k-th on.
RECURSIVE ExtendUsers(_, _, _)
ExtendUsers(ni, k, bb) ==
    IF k >= Size(ni.users) THEN bb
    ELSE ExtendUsers(ni, k + 1, Extend(bb, getBelLocation(At(ni.users, k))))

\* (mutant) the box starts as the whole grid instead of the null space
NetBounds_FullSpace(c, ni) ==
    LET full == [x0 |-> 0, y0 |-> 0, x1 |-> c.gridDimX - 1, y1 |-> c.gridDimY - 1]
        bb0 == IF ni.driver.cell THEN Extend(full, getBelLocation(ni.driver)) ELSE full
    IN  ExtendUsers(ni, 0, bb0)

\* The bounding box of a net: the null space extended by the driver's and
\* the users' bel locations.
NetBounds(c, ni) ==
    LET null == [x0 |-> c.gridDimX - 1, y0 |-> c.gridDimY - 1, x1 |-> 0, y1 |-> 0]
        bb0 == IF ni.driver.cell THEN Extend(null, getBelLocation(ni.driver)) ELSE null
    IN  ExtendUsers(ni, 0, bb0)

\* (mutant) a sink bound at STRENGTH_STRONG already counts as locked
ScanUser_AtLeastStrong(ni, wire, r) ==
    IF wire \notin DOMAIN ni.wires THEN [r EXCEPT !.invalid_route = TRUE]
    ELSE IF ni.wires[wire].strength >= STRENGTH_STRONG THEN [r EXCEPT !.fixed_routing = TRUE]
    ELSE r

\* (mutant) a sink wire missing from the routing is not noticed
ScanUser_NoMissing(ni, wire, r) ==
    IF wire \in DOMAIN ni.wires /\ ni.wires[wire].strength > STRENGTH_STRONG
        THEN [r EXCEPT !.fixed_routing = TRUE]
    ELSE r

\* The body of the loop over the users, for the user whose sink wire is
\* wire; r holds invalid_route and fixed_routing.
ScanUser(ni, wire, r) ==
    IF wire \notin DOMAIN ni.wires THEN [r EXCEPT !.invalid_route = TRUE]
    ELSE IF ni.wires[wire].strength > STRENGTH_STRONG THEN [r EXCEPT !.fixed_routing = TRUE]
    ELSE r

\* The loop over the users that looks for existing routing, from the k-th
\* user on.
RECURSIVE ScanUsers(_, _, _)
ScanUsers(ni, k, r) ==
    IF k >= Size(ni.users) THEN r
    ELSE ScanUsers(ni, k + 1, ScanUser(ni, getNetinfoSinkWire(ni, At(ni.users, k)), r))

\* (mutant) the count is left as it was
Increment_Forgotten(v) == v

\* bound_count.at(idx)++ on a uint8_t
Increment(v) == ToUInt8(v + 1)

\* The loop that marks the wires ws of a fixed net as used; r holds
\* bound_count and the outcome ("ok", or the exception that ended the loop).
\* ni->wires is an unordered_map: the order is the implementation's.
RECURSIVE MarkWires(_, _, _)
MarkWires(ws, w2i, r) ==
    IF ws = {} \/ r.outcome # "ok" THEN r
    ELSE LET wire == CHOOSE w \in ws : TRUE
         IN  IF wire \notin DOMAIN w2i
                 THEN [r EXCEPT !.outcome = "out_of_range"]
             ELSE IF At(r.bound_count, w2i[wire]) # 0
                 THEN [r EXCEPT !.outcome = "assertion_failure"]
             ELSE MarkWires(ws \ {wire}, w2i,
                      [r EXCEPT !.bound_count =
                          SetAt(r.bound_count, w2i[wire],
                                Increment(At(r.bound_count, w2i[wire])))])

\* ctx->ripupNet(name): every wire and pip of net k is unbound.
ripupNet(c, k) ==
    LET ni == At(c.nets, k)
        ps == {ni.wires[w].pip : w \in DOMAIN ni.wires}
    IN  [c EXCEPT !.nets = SetAt(c.nets, k, [ni EXCEPT !.wires = EmptyMap]),
                  !.wavail = [w \in DOMAIN c.wavail |->
                                 IF w \in DOMAIN ni.wires THEN TRUE ELSE c.wavail[w]],
                  !.pips = [p \in DOMAIN c.pips |->
                               IF (p - 1) \in ps THEN [c.pips[p] EXCEPT !.avail = TRUE]
                               ELSE c.pips[p]]]

\* nd.undriven is only assigned when the net has no driver; otherwise the
\* field of the local is never initialised and holds either value.
UndrivenValues(ni) == IF ni.driver.cell THEN BOOLEAN ELSE {TRUE}

\* (mutant) the rip-up is not in an else branch: a fixed net is ripped up
\* too, after its wires are marked
ImportNetResult_NoElse(c, k, bc, w2i, u) ==
    LET ni == At(c.nets, k)
        bb == NetBounds(c, ni)
        scan == IF ni.wires # EmptyMap
                THEN ScanUsers(ni, 0, [invalid_route |-> FALSE, fixed_routing |-> FALSE])
                ELSE [invalid_route |-> FALSE, fixed_routing |-> FALSE]
        local == [ni |-> k, bb |-> bb, undriven |-> u, fixed_routing |-> scan.fixed_routing]
        same == [nd |-> local, outcome |-> "ok", bound_count |-> bc, ctx |-> c]
    IN  IF ni.wires = EmptyMap THEN same
        ELSE IF scan.fixed_routing THEN
            IF scan.invalid_route THEN [same EXCEPT !.outcome = "log_error"]
            ELSE LET m == MarkWires(DOMAIN ni.wires, w2i,
                                    [bound_count |-> bc, outcome |-> "ok"])
                 IN  [same EXCEPT !.outcome = m.outcome, !.bound_count = m.bound_count,
                                  !.ctx = ripupNet(c, k)]
        ELSE [same EXCEPT !.ctx = ripupNet(c, k)]

\* One iteration of import_nets, for net k, with u the value nd.undriven
\* ends up with: the local nd, how the iteration ends, bound_count and ctx.
ImportNetResult(c, k, bc, w2i, u) ==
    LET ni == At(c.nets, k)
        bb == NetBounds(c, ni)
        scan == IF ni.wires # EmptyMap
                THEN ScanUsers(ni, 0, [invalid_route |-> FALSE, fixed_routing |-> FALSE])
                ELSE [invalid_route |-> FALSE, fixed_routing |-> FALSE]
        local == [ni |-> k, bb |-> bb, undriven |-> u, fixed_routing |-> scan.fixed_routing]
        same == [nd |-> local, outcome |-> "ok", bound_count |-> bc, ctx |-> c]
    IN  IF ni.wires = EmptyMap THEN same
        ELSE IF scan.fixed_routing THEN
            IF scan.invalid_route THEN [same EXCEPT !.outcome = "log_error"]
            ELSE LET m == MarkWires(DOMAIN ni.wires, w2i,
                                    [bound_count |-> bc, outcome |-> "ok"])
                 IN  [same EXCEPT !.outcome = m.outcome, !.bound_count = m.bound_count]
        ELSE [same EXCEPT !.ctx = ripupNet(c, k)]

\* One iteration of the loop over sorted(ctx->nets).  log_error and a failed
\* assertion throw: operator() never returns.
import_net ==
    /\ pc = "import_nets"
    /\ i < Size(ctx.nets)
    /\ \E u \in UndrivenValues(At(ctx.nets, i)) :
         \E r \in {ImportNetResult(ctx, i, bound_count, wire_to_index, u)} :
           /\ nd' = r.nd
           /\ net_fixed' = PushBack(net_fixed, r.nd.fixed_routing)
           /\ bound_count' = r.bound_count
           /\ ctx' = r.ctx
           /\ pc' = IF r.outcome = "ok" THEN "import_nets" ELSE r.outcome
    /\ i' = i + 1
    /\ UNCHANGED <<wire_x, wire_y, adj_offset, edge_dst_index, edge_cost, edge_pip,
                   wire_data, wire_to_index, width, height, current_cost, uphill_edge,
                   buffers, grid2net, net_slots, ret, flight, call, queue_count, sum_call>>

\* The loop over the nets is over: import_nets returns.
import_nets_return ==
    /\ pc = "import_nets"
    /\ i >= Size(ctx.nets)
    /\ pc' = "alloc_buffers"
    /\ UNCHANGED <<ctx, wire_x, wire_y, adj_offset, edge_dst_index, edge_cost, edge_pip,
                   wire_data, wire_to_index, width, height, current_cost, uphill_edge,
                   bound_count, nd, net_fixed, buffers, grid2net, net_slots, i, ret,
                   flight, call, queue_count, sum_call>>

\* -------------------------------------------------------- alloc_buffers
num_workgroups == 64
near_queue_len == 15000
far_queue_len == 100000
dirty_queue_len == 100000
workgroup_size == 128

\* InFlightNet's default member initialiser.
InFlightNet == [net_idx |-> -1]

\* alloc_buffers(), then operator() returns true.  The scratch queues are
\* kept by their sizes only.  grid2net.resize value-initialises the cells.
alloc_buffers ==
    /\ pc = "alloc_buffers"
    /\ buffers' = [near_queue_a |-> near_queue_len * num_workgroups,
                   near_queue_count_a |-> num_workgroups,
                   near_queue_b |-> near_queue_len * num_workgroups,
                   near_queue_count_b |-> num_workgroups,
                   far_queue |-> far_queue_len * num_workgroups,
                   far_queue_count |-> num_workgroups,
                   dirtied_nodes |-> dirty_queue_len * num_workgroups,
                   dirtied_nodes_count |-> num_workgroups,
                   route_config |-> max_nets_in_flight,
                   wg_config |-> workgroup_size]
    /\ net_slots' = [k \in 1..max_nets_in_flight |->
                        IF k <= Len(net_slots) THEN net_slots[k] ELSE InFlightNet]
    /\ queue_count' = [k \in 1..num_workgroups |->
                           IF k <= Len(queue_count) THEN queue_count[k] ELSE Zero]
    /\ grid2net' = Resize(grid2net, width * height)
    /\ pc' = "done"
    /\ ret' = "true"
    /\ UNCHANGED <<ctx, wire_x, wire_y, adj_offset, edge_dst_index, edge_cost, edge_pip,
                   wire_data, wire_to_index, width, height, current_cost, uphill_edge,
                   bound_count, nd, net_fixed, i, flight, call, sum_call>>

\* ------------------------------------------------------------ prefix_sum
\* No call of prefix_sum has been recorded.
NoSum == [count |-> 0, returned |-> Zero, outcome |-> "none"]

\* (mutant) the entry is written before it is added: an exclusive prefix sum
RECURSIVE ExclusiveFrom(_, _, _, _)
ExclusiveFrom(in, count, k, sum) ==
    IF k >= count THEN [in |-> in, returned |-> sum, outcome |-> "ok"]
    ELSE IF k >= Size(in) THEN [in |-> in, returned |-> sum, outcome |-> "out_of_range"]
    ELSE ExclusiveFrom(SetAt(in, k, sum), count, k + 1, ToUInt32(Plus(sum, At(in, k))))

prefix_sum_Exclusive(in, count) == ExclusiveFrom(in, count, 0, Zero)

\* The loop of prefix_sum from entry k on, with sum the running total: the
\* buffer, the value returned, and "ok" or the exception in.at(i) threw
\* (the entries written before it stay).
RECURSIVE PrefixFrom(_, _, _, _)
PrefixFrom(in, count, k, sum) ==
    IF k >= count THEN [in |-> in, returned |-> sum, outcome |-> "ok"]
    ELSE IF k >= Size(in) THEN [in |-> in, returned |-> sum, outcome |-> "out_of_range"]
    ELSE LET next == ToUInt32(Plus(sum, At(in, k)))
         IN  PrefixFrom(SetAt(in, k, next), count, k + 1, next)

\* prefix_sum(in, count)
prefix_sum(in, count) == PrefixFrom(in, count, 0, Zero)

\* prefix_sum called once on the count buffer, with any count.
prefix_sum_call ==
    /\ sum_call.outcome = "none"
    /\ \E count \in (-1)..(Size(queue_count) + 1) :
         \E r \in {prefix_sum(queue_count, count)} :
           /\ queue_count' = r.in
           /\ sum_call' = [count |-> count, returned |-> r.returned, outcome |-> r.outcome]
    /\ UNCHANGED <<ctx, wire_x, wire_y, adj_offset, edge_dst_index, edge_cost, edge_pip,
                   wire_data, wire_to_index, width, height, current_cost, uphill_edge,
                   bound_count, nd, net_fixed, buffers, grid2net, net_slots, pc, i, ret,
                   flight, call>>

\* No call of check_region has been recorded.
NoBox == [x0 |-> 0, y0 |-> 0, x1 |-> 0, y1 |-> 0]
NoCall == [caller |-> "none", box |-> NoBox, value |-> 0, result |-> "none"]

\* ---------------------------------------------- mark_region, check_region
\* The loops of check_region from cell (x, y) of the box on, on grid g of
\* width w and height h: "true", "false", or the assertion that failed.
RECURSIVE CheckFrom(_, _, _, _, _, _, _)
CheckFrom(g, w, h, box, value, x, y) ==
    IF y > box.y1 THEN "true"
    ELSE IF ~(y >= 0 /\ y < h) THEN "assertion_failure"
    ELSE IF x > box.x1 THEN CheckFrom(g, w, h, box, value, box.x0, y + 1)
    ELSE IF ~(x >= 0 /\ x < w) THEN "assertion_failure"
    ELSE IF At(g, y * w + x) # value THEN "false"
    ELSE CheckFrom(g, w, h, box, value, x + 1, y)

\* (mutant) the loops stop before the last column and the last row
check_region_Exclusive(g, w, h, box, value) ==
    CheckFrom(g, w, h, [box EXCEPT !.x1 = box.x1 - 1, !.y1 = box.y1 - 1], value,
              box.x0, box.y0)

\* (mutant) a cell that differs is skipped instead of ending the check
check_region_FirstCell(g, w, h, box, value) ==
    LET r == CheckFrom(g, w, h, [box EXCEPT !.x1 = box.x0, !.y1 = box.y0], value,
                       box.x0, box.y0)
    IN  IF box.x0 > box.x1 \/ box.y0 > box.y1
        THEN CheckFrom(g, w, h, box, value, box.x0, box.y0)
        ELSE r

\* check_region(x0, y0, x1, y1, value)
check_region(g, w, h, box, value) == CheckFrom(g, w, h, box, value, box.x0, box.y0)

\* The loops of mark_region from cell (x, y) of the box on: the grid, and
\* "ok" or the assertion that failed (the cells written before it stay).
RECURSIVE MarkFrom(_, _, _, _, _, _, _)
MarkFrom(g, w, h, box, value, x, y) ==
    IF y > box.y1 THEN [grid |-> g, outcome |-> "ok"]
    ELSE IF ~(y >= 0 /\ y < h) THEN [grid |-> g, outcome |-> "assertion_failure"]
    ELSE IF x > box.x1 THEN MarkFrom(g, w, h, box, value, box.x0, y + 1)
    ELSE IF ~(x >= 0 /\ x < w) THEN [grid |-> g, outcome |-> "assertion_failure"]
    ELSE MarkFrom(SetAt(g, y * w + x, value), w, h, box, value, x + 1, y)

\* (mutant) only the first row of the box is written
mark_region_FirstRow(g, w, h, box, value) ==
    IF box.y0 > box.y1 THEN MarkFrom(g, w, h, box, value, box.x0, box.y0)
    ELSE MarkFrom(g, w, h, [box EXCEPT !.y1 = box.y0], value, box.x0, box.y0)

\* mark_region(x0, y0, x1, y1, value)
mark_region(g, w, h, box, value) == MarkFrom(g, w, h, box, value, box.x0, box.y0)

\* ------------------------------------------------------------ scheduler
\* Admission and vacation as the design describes them (the scheduler is not
\* part of ocular.cc yet): a pending net n with bounding box bb is admitted
\* when check_region(bb, -1) holds, into the first free slot s, and stamped with
\* mark_region(bb, s); otherwise it is deferred and nothing changes.
Boxes == [x0 : 0..(MaxDim - 1), y0 : 0..(MaxDim - 1),
          x1 : 0..(MaxDim - 1), y1 : 0..(MaxDim - 1)]
InGrid(box) ==
    /\ box.x0 < width /\ box.x1 < width
    /\ box.y0 < height /\ box.y1 < height
\* the boxes check_region is called on: those that hold a tile, inside the
\* grid or not, and the null space import_nets starts a bounding box from
NullSpace == [x0 |-> ctx.gridDimX - 1, y0 |-> ctx.gridDimY - 1, x1 |-> 0, y1 |-> 0]
CallBoxes == {b \in Boxes : b.x0 <= b.x1 /\ b.y0 <= b.y1} \cup {NullSpace}
\* the bounding box of a net with a driver or a user holds a tile
NetBoxes == {b \in Boxes : InGrid(b) /\ b.x0 <= b.x1 /\ b.y0 <= b.y1}
\* the nets to route; net 0 is one the scheduler skips (fixed or undriven)
SchedNets == 1..(MaxSlots + 1)
UsedSlots == 0..(MaxSlots - 1)
FreeSlots == {s \in UsedSlots : At(net_slots, s).net_idx = -1}
\* the first free slot is taken
FirstFree == CHOOSE s \in FreeSlots : \A t \in FreeSlots : s <= t
\* the nets are handed out in index order
NextPending == CHOOSE n \in SchedNets \ DOMAIN flight :
                   \A k \in SchedNets \ DOMAIN flight : n <= k

admit ==
    /\ pc = "scheduler"
    /\ \E n \in {NextPending}, bb \in NetBoxes :
         \E clear \in {check_region(grid2net, width, height, bb, -1)} :
           IF clear = "true" /\ FreeSlots # {}
           THEN \E s \in {FirstFree} :
                  \E m \in {mark_region(grid2net, width, height, bb, s)} :
                    /\ grid2net' = m.grid
                    /\ net_slots' = SetAt(net_slots, s, [net_idx |-> n])
                    /\ flight' = [k \in DOMAIN flight \cup {n} |->
                                     IF k = n THEN bb ELSE flight[k]]
                    /\ pc' = IF m.outcome = "ok" THEN "scheduler" ELSE m.outcome
           ELSE /\ UNCHANGED <<grid2net, net_slots, flight>>
                /\ pc' = IF clear = "assertion_failure" THEN clear ELSE "scheduler"
    /\ UNCHANGED <<ctx, wire_x, wire_y, adj_offset, edge_dst_index, edge_cost, edge_pip,
                   wire_data, wire_to_index, width, height, current_cost, uphill_edge,
                   bound_count, nd, net_fixed, buffers, i, ret, call,
                   queue_count, sum_call>>

\* With no net in flight the whole grid is marked free:
\* mark_region(0, 0, width - 1, height - 1, -1).
clear_grid ==
    /\ pc = "scheduler"
    /\ FreeSlots = UsedSlots
    /\ \E m \in {mark_region(grid2net, width, height,
                              [x0 |-> 0, y0 |-> 0, x1 |-> width - 1, y1 |-> height - 1], -1)} :
           /\ grid2net' = m.grid
           /\ pc' = IF m.outcome = "ok" THEN "scheduler" ELSE m.outcome
    /\ UNCHANGED <<ctx, wire_x, wire_y, adj_offset, edge_dst_index, edge_cost, edge_pip,
                   wire_data, wire_to_index, width, height, current_cost, uphill_edge,
                   bound_count, nd, net_fixed, buffers, net_slots, i, ret, flight, call,
                   queue_count, sum_call>>

\* A slot is vacated: its net's box is unstamped with mark_region(bb, -1).
vacate ==
    /\ pc = "scheduler"
    /\ \E s \in UsedSlots \ FreeSlots :
         LET n == At(net_slots, s).net_idx
         IN  \E m \in {mark_region(grid2net, width, height, flight[n], -1)} :
               /\ grid2net' = m.grid
               /\ net_slots' = SetAt(net_slots, s, [net_idx |-> -1])
               /\ flight' = [k \in DOMAIN flight \ {n} |-> flight[k]]
               /\ pc' = IF m.outcome = "ok" THEN "scheduler" ELSE m.outcome
    /\ UNCHANGED <<ctx, wire_x, wire_y, adj_offset, edge_dst_index, edge_cost, edge_pip,
                   wire_data, wire_to_index, width, height, current_cost, uphill_edge,
                   bound_count, nd, net_fixed, buffers, i, ret, call,
                   queue_count, sum_call>>

\* check_region called on a box with any value, at any moment of the
\* scheduler's run; the call and its result are recorded and the run is
\* followed no further from the recorded call (the call changes nothing, so
\* the run goes on from the state before it).
check_region_call ==
    /\ pc = "scheduler"
    /\ \E bb \in CallBoxes, v \in {-1} \cup UsedSlots :
           call' = [caller |-> "check", box |-> bb, value |-> v,
                    result |-> check_region(grid2net, width, height, bb, v)]
    /\ pc' = "checked"
    /\ UNCHANGED <<ctx, wire_x, wire_y, adj_offset, edge_dst_index, edge_cost, edge_pip,
                   wire_data, wire_to_index, width, height, current_cost, uphill_edge,
                   bound_count, nd, net_fixed, buffers, grid2net, net_slots, i, ret,
                   flight, queue_count, sum_call>>

\* mark_region called on a box with any value, at any moment of the
\* scheduler's run; the call and how it ended are recorded and the run is
\* followed no further from it.
mark_region_call ==
    /\ pc = "scheduler"
    /\ \E bb \in CallBoxes, v \in {-1} \cup UsedSlots :
         \E m \in {mark_region(grid2net, width, height, bb, v)} :
           /\ grid2net' = m.grid
           /\ call' = [caller |-> "mark", box |-> bb, value |-> v, result |-> m.outcome]
    /\ pc' = "marked"
    /\ UNCHANGED <<ctx, wire_x, wire_y, adj_offset, edge_dst_index, edge_cost, edge_pip,
                   wire_data, wire_to_index, width, height, current_cost, uphill_edge,
                   bound_count, nd, net_fixed, buffers, net_slots, i, ret, flight,
                   queue_count, sum_call>>

\* ------------------------------------------------------------ the inputs
\* The k-th wire that getWires() yields (k from 0) has handle W - k: handles
\* are not indices.
WireSeq(W) == [k \in 1..W |-> W + 1 - k]
WireBox(W) == [w \in 1..W |-> [x0 |-> WireTileX(w), y0 |-> WireTileY(w),
                               x1 |-> WireTileX(w), y1 |-> WireTileY(w)]]
PipRecs(W) == [src : 1..W, dst : 1..W, avail : BOOLEAN, delay : Delays]
PipVecs(W) == UNION {[1..n -> PipRecs(W)] : n \in 0..MaxPips}
\* getPipsDownhill is per wire; listing the pips by source wire loses nothing.
SrcSorted(ps) == \A a, b \in DOMAIN ps : a < b => ps[a].src >= ps[b].src

\* An architecture with W wires and no nets.
Arch(W, wa, wd, ps) ==
    [wires |-> WireSeq(W), box |-> WireBox(W), wavail |-> wa, wdelay |-> wd,
     pips |-> ps, gridDimX |-> MaxDim, gridDimY |-> MaxDim, nets |-> EmptyVec]

\* Before the first iteration there is no local nd; nothing is allocated.
NoNetData == [ni |-> -1, bb |-> [x0 |-> 0, y0 |-> 0, x1 |-> 0, y1 |-> 0],
              undriven |-> FALSE, fixed_routing |-> FALSE]
NoBuffers == [near_queue_a |-> 0, near_queue_count_a |-> 0, near_queue_b |-> 0,
              near_queue_count_b |-> 0, far_queue |-> 0, far_queue_count |-> 0,
              dirtied_nodes |-> 0, dirtied_nodes_count |-> 0, route_config |-> 0,
              wg_config |-> 0]

\* The state a new OcularRouter(ctx) is in.
InitRouter(c) ==
    /\ ctx = c
    /\ wire_x = EmptyVec /\ wire_y = EmptyVec /\ adj_offset = EmptyVec
    /\ edge_dst_index = EmptyVec /\ edge_cost = EmptyVec /\ edge_pip = EmptyVec
    /\ wire_data = EmptyVec /\ wire_to_index = EmptyMap
    /\ width = 0 /\ height = 0
    /\ current_cost = EmptyVec /\ uphill_edge = EmptyVec /\ bound_count = EmptyVec
    /\ nd = NoNetData /\ net_fixed = EmptyVec
    /\ buffers = NoBuffers
    /\ grid2net = EmptyVec /\ net_slots = EmptyVec
    /\ pc = "build_graph"
    /\ i = 0
    /\ ret = "none"
    /\ flight = EmptyMap
    /\ call = NoCall
    /\ queue_count = EmptyVec
    /\ sum_call = NoSum

\* Architectures of up to MaxWires wires and MaxPips pips, of which at most
\* one wire and at most one pip is unavailable.
AtMostOne(S) == \A a, b \in S : a = b
InitGraph ==
    \E W \in 0..MaxWires :
        \E wa \in [1..W -> BOOLEAN], wd \in [1..W -> Delays], ps \in PipVecs(W) :
            /\ SrcSorted(ps)
            /\ AtMostOne({w \in 1..W : ~wa[w]})
            /\ AtMostOne({p \in DOMAIN ps : ~ps[p].avail})
            /\ InitRouter(Arch(W, wa, wd, ps))

\* A placed design on a device of two wires joined by a pip in each
\* direction.  Net k (from 0) has a driver or not (drv), users with their
\* sink wires (us), and the wires that earlier passes bound to it (own: per
\* wire, <<0, 0>> or <<net number from 1, strength>>).  A bel sits in the tile
\* of its pin's wire; a bound wire or pip is unavailable.
DeviceWires == 1..2
TileOf(w) == [x |-> WireTileX(w), y |-> WireTileY(w)]
DriverWire(k) == (k % 2) + 1
UphillPip(w) == IF w = 1 THEN 0 ELSE 1
UserVecs == UNION {[1..n -> DeviceWires] : n \in 0..MaxUsers}
Owners(N) == {<<0, 0>>} \cup ((1..N) \X Strengths)

NetOf(k, drv, us, own) ==
    LET source == IF drv[k + 1] THEN DriverWire(k) ELSE NoWire
    IN  [driver |-> [cell |-> drv[k + 1], wire |-> source,
                     loc |-> IF drv[k + 1] THEN TileOf(source) ELSE [x |-> 0, y |-> 0]],
         users |-> [n \in DOMAIN us[k + 1] |->
                       [wire |-> us[k + 1][n], loc |-> TileOf(us[k + 1][n])]],
         wires |-> [w \in {v \in DeviceWires : own[v][1] = k + 1} |->
                       [pip |-> IF w = source THEN NoPip ELSE UphillPip(w),
                        strength |-> own[w][2]]]]

Design(N, drv, us, own) ==
    LET nets == [k \in 1..N |-> NetOf(k - 1, drv, us, own)]
        used == UNION {{nets[k].wires[w].pip : w \in DOMAIN nets[k].wires} : k \in 1..N}
    IN  [wires |-> WireSeq(2), box |-> WireBox(2),
         wavail |-> [w \in DeviceWires |-> own[w][1] = 0],
         wdelay |-> [w \in DeviceWires |-> w],
         pips |-> <<[src |-> 2, dst |-> 1, avail |-> 0 \notin used, delay |-> 1],
                    [src |-> 1, dst |-> 2, avail |-> 1 \notin used, delay |-> 1]>>,
         gridDimX |-> MaxDim, gridDimY |-> MaxDim, nets |-> nets]

RECURSIVE SumLen(_, _)
SumLen(us, n) == IF n = 0 THEN 0 ELSE Len(us[n]) + SumLen(us, n - 1)

\* Designs of up to MaxNets nets with up to MaxUsers users between them.
Init ==
    \E N \in 0..MaxNets :
        \E drv \in [1..N -> BOOLEAN], us \in [1..N -> UserVecs],
           own \in [DeviceWires -> Owners(N)] :
            /\ SumLen(us, N) <= MaxUsers
            /\ InitRouter(Design(N, drv, us, own))

Next == build_graph \/ import_net \/ import_nets_return \/ alloc_buffers

Spec == Init /\ [][Next]_vars

\* The router after operator() on a device whose one wire spans wd x ht
\* tiles, with the grid as alloc_buffers leaves it, and the scheduler about
\* to run.
SpanDevice(wd, ht) ==
    [wires |-> WireSeq(1), box |-> [w \in {1} |-> [x0 |-> 0, y0 |-> 0,
                                                   x1 |-> wd - 1, y1 |-> ht - 1]],
     wavail |-> [w \in {1} |-> TRUE], wdelay |-> [w \in {1} |-> 1], pips |-> EmptyVec,
     gridDimX |-> wd, gridDimY |-> ht, nets |-> EmptyVec]

InitArbiter ==
    \E wd \in 1..MaxDim, ht \in 1..MaxDim :
      \E g \in {BuildGraphResult(SpanDevice(wd, ht),
                    [wire_x |-> EmptyVec, wire_y |-> EmptyVec, wire_data |-> EmptyVec,
                     wire_to_index |-> EmptyMap, width |-> 0, height |-> 0,
                     adj_offset |-> EmptyVec, edge_cost |-> EmptyVec,
                     edge_dst_index |-> EmptyVec, edge_pip |-> EmptyVec,
                     current_cost |-> EmptyVec, uphill_edge |-> EmptyVec,
                     bound_count |-> EmptyVec])} :
        /\ ctx = SpanDevice(wd, ht)
        /\ wire_x = g.wire_x /\ wire_y = g.wire_y /\ wire_data = g.wire_data
        /\ wire_to_index = g.wire_to_index /\ width = g.width /\ height = g.height
        /\ adj_offset = g.adj_offset /\ edge_cost = g.edge_cost
        /\ edge_dst_index = g.edge_dst_index /\ edge_pip = g.edge_pip
        /\ current_cost = g.current_cost /\ uphill_edge = g.uphill_edge
        /\ bound_count = g.bound_count
        /\ nd = NoNetData /\ net_fixed = EmptyVec
        /\ buffers = NoBuffers
        /\ grid2net = Resize(EmptyVec, g.width * g.height)
        /\ net_slots = [k \in 1..max_nets_in_flight |-> InFlightNet]
        /\ pc = "scheduler"
        /\ i = 0
        /\ ret = "true"
        /\ flight = EmptyMap
        /\ call = NoCall
        /\ queue_count = Fill(Resize(EmptyVec, num_workgroups), Zero)
        /\ sum_call = NoSum

\* A router whose count buffer holds up to MaxCounts per-workgroup counts,
\* small ones and one that makes a sum wrap, before prefix_sum is called.
CountValues == {Zero, U32(0, 1), U32(0, 2), U32(Half - 1, Half - 1)}
CountVecs == UNION {[1..n -> CountValues] : n \in 0..MaxCounts}

InitPrefix ==
    \E in \in CountVecs :
        /\ ctx = Arch(0, EmptyMap, EmptyMap, EmptyVec)
        /\ wire_x = EmptyVec /\ wire_y = EmptyVec /\ wire_data = EmptyVec
        /\ wire_to_index = EmptyMap /\ width = 0 /\ height = 0
        /\ adj_offset = EmptyVec /\ edge_cost = EmptyVec
        /\ edge_dst_index = EmptyVec /\ edge_pip = EmptyVec
        /\ current_cost = EmptyVec /\ uphill_edge = EmptyVec
        /\ bound_count = EmptyVec
        /\ nd = NoNetData /\ net_fixed = EmptyVec
        /\ buffers = NoBuffers
        /\ grid2net = EmptyVec /\ net_slots = EmptyVec
        /\ pc = "prefix_sum"
        /\ i = 0
        /\ ret = "none"
        /\ flight = EmptyMap
        /\ call = NoCall
        /\ queue_count = in
        /\ sum_call = NoSum

NextPrefix == prefix_sum_call

SpecPrefix == InitPrefix /\ [][NextPrefix]_vars

NextRegion == clear_grid \/ admit \/ vacate \/ mark_region_call

\* The scheduler's run with mark_region called at any moment of it.
SpecRegion == InitArbiter /\ [][NextRegion]_vars

NextArbiter == clear_grid \/ admit \/ vacate \/ check_region_call

SpecArbiter == InitArbiter /\ [][NextArbiter]_vars

NextGraph == build_graph

SpecGraph == InitGraph /\ [][NextGraph]_vars

\* ------------------------------------------------ properties: the graph
GraphBuilt == pc # "build_graph"
NumWires == Size(ctx.wires)
\* The index of wire w: its position in ctx->getWires().
IndexOfWire(w) == CHOOSE k \in Indices(ctx.wires) : At(ctx.wires, k) = w
\* Whether pip p makes an edge: it and its destination wire are available.
Usable(p) == At(ctx.pips, p).avail /\ ctx.wavail[At(ctx.pips, p).dst]
\* The database's downhill pips of wire w, in database order.
DownhillOf(w) ==
    LET ids == [k \in 1..Len(ctx.pips) |-> k - 1]
    IN  SelectSeq(ids, LAMBDA p : At(ctx.pips, p).src = w)
\* (delay_ns(pip) + delay_ns(destination wire)) * delay_scale, in 1/DelayDen ps
ScaledDelay(e) ==
    LET p == At(edge_pip, e)
    IN  (At(ctx.pips, p).delay + ctx.wdelay[At(ctx.pips, p).dst]) * delay_scale

\* C2: after build_graph adj_offset has W+1 entries, starts at 0, never
\* decreases, ends at the number of edges E, and every edge_dst_index[e] is
\* a wire index in [0, W); also for W = 0 and for wires without downhill pips.
C2_CSRWellFormed ==
    GraphBuilt =>
        /\ Size(adj_offset) = NumWires + 1
        /\ At(adj_offset, 0) = 0
        /\ \A n \in 0..(NumWires - 1) : At(adj_offset, n) <= At(adj_offset, n + 1)
        /\ At(adj_offset, NumWires) = Size(edge_dst_index)
        /\ \A e \in Indices(edge_dst_index) :
               At(edge_dst_index, e) >= 0 /\ At(edge_dst_index, e) < NumWires

\* C2 witness: a built graph with edges in which some wire has an empty row.
C2_Witness ==
    /\ GraphBuilt
    /\ Size(edge_dst_index) >= 1
    /\ \E n \in 0..(NumWires - 1) : At(adj_offset, n) = At(adj_offset, n + 1)

\* C3: after build_graph the row of every wire index n holds exactly the
\* downhill pips of wire n that are available and whose destination wire is
\* available, in database order, each with the index of its destination
\* wire; no other pip is in any edge; the three edge vectors have one length.
C3_EdgesExact ==
    GraphBuilt =>
        /\ Size(edge_cost) = Size(edge_dst_index)
        /\ Size(edge_pip) = Size(edge_dst_index)
        /\ \A e \in Indices(edge_pip) : Usable(At(edge_pip, e))
        /\ \A n \in Indices(ctx.wires) :
               LET want == SelectSeq(DownhillOf(At(ctx.wires, n)), Usable)
                   lo == At(adj_offset, n)
               IN  /\ At(adj_offset, n + 1) - lo = Len(want)
                   /\ \A j \in 1..Len(want) :
                          /\ At(edge_pip, lo + j - 1) = want[j]
                          /\ At(edge_dst_index, lo + j - 1)
                                 = IndexOfWire(At(ctx.pips, want[j]).dst)

\* C3 witness: a built graph with an edge, where an available pip was left
\* out because its destination wire is unavailable.
C3_Witness ==
    /\ GraphBuilt
    /\ Size(edge_pip) >= 1
    /\ \E p \in Indices(ctx.pips) :
           At(ctx.pips, p).avail /\ ~ctx.wavail[At(ctx.pips, p).dst]

\* C4 as stated: every edge cost is the integer nearest to the scaled delay
\* sum.
C4_CostIsNearest ==
    GraphBuilt =>
        \A e \in Indices(edge_cost) :
            LET d == At(edge_cost, e) * DelayDen - ScaledDelay(e)
            IN  2 * d <= DelayDen /\ 2 * (-d) <= DelayDen

\* C4 amended: every edge cost is the scaled delay sum with its fraction
\* dropped (for the non-negative delays of a device: the greatest integer not
\* above it).
C4_CostIsTruncated ==
    GraphBuilt =>
        \A e \in Indices(edge_cost) :
            /\ At(edge_cost, e) * DelayDen <= ScaledDelay(e)
            /\ ScaledDelay(e) < (At(edge_cost, e) + 1) * DelayDen

\* C4 witness: an edge whose scaled delay sum is three quarters above an integer.
C4_Witness ==
    /\ GraphBuilt
    /\ \E e \in Indices(edge_cost) : 4 * (ScaledDelay(e) % DelayDen) = 3 * DelayDen

\* --------------------------------------------- properties: import_nets
\* import_nets is about to run the iteration for net i.
Importing == pc = "import_nets" /\ i < Size(ctx.nets)
\* The net that iteration is for, with its routing as import_nets finds it.
ThisNet == At(ctx.nets, i)
\* The sink wire of some user of ni is not among ni's bound wires.
MissingSink(ni) ==
    \E k \in Indices(ni.users) : At(ni.users, k).wire \notin DOMAIN ni.wires
\* Some wire bound to ni has a strength above STRENGTH_STRONG.
LockedWire(ni) ==
    \E w \in DOMAIN ni.wires : ni.wires[w].strength > STRENGTH_STRONG
\* The sink wire of some user of ni is bound to ni above STRENGTH_STRONG.
LockedSink(ni) ==
    \E k \in Indices(ni.users) :
        /\ At(ni.users, k).wire \in DOMAIN ni.wires
        /\ ni.wires[At(ni.users, k).wire].strength > STRENGTH_STRONG
\* The iteration ends in log_error and changes neither bound_count nor any
\* binding; after a fatal error nothing more happens.
FatalNow == pc' = "log_error" /\ bound_count' = bound_count /\ ctx' = ctx

\* C8 as stated: a net with some wire bound above STRONG and a user whose
\* sink wire is not bound is a fatal error, raised at once: bound_count and
\* the net's bindings stay as they were.
C8_LockedWireAndMissingSinkFatal ==
    [][Importing /\ LockedWire(ThisNet) /\ MissingSink(ThisNet) => FatalNow]_vars

\* C8 amended: a net with the sink wire of some user bound above STRONG and
\* a user whose sink wire is not bound is a fatal error, raised at once:
\* bound_count and the net's bindings stay as they were, and import_nets
\* takes no further step.
C8_LockedSinkAndMissingSinkFatal ==
    [][/\ Importing /\ LockedSink(ThisNet) /\ MissingSink(ThisNet) => FatalNow
       /\ pc = "log_error" => UNCHANGED vars]_vars

\* C8 witness: import_nets has stopped in log_error on a net with a locked
\* sink wire and a missing one, its routing still bound.
C8_Witness ==
    /\ pc = "log_error"
    /\ LockedSink(At(ctx.nets, nd.ni))
    /\ MissingSink(At(ctx.nets, nd.ni))

\* C9 as stated: a net is marked fixed_routing exactly when one of the wires
\* bound to it, whichever, has a strength above STRONG.
C9_FixedIffLockedWire ==
    [][Importing => (nd'.fixed_routing <=> LockedWire(ThisNet))]_vars

\* C9 amended: a net is marked fixed_routing exactly when the sink wire of one
\* of its users is bound to it with a strength above STRONG; a net with no
\* bound wires, or whose bound wires all have strength <= STRONG, is not marked.
C9_FixedIffLockedSink ==
    [][Importing =>
          /\ nd'.ni = i
          /\ nd'.fixed_routing <=> LockedSink(ThisNet)
          /\ ~LockedWire(ThisNet) => ~nd'.fixed_routing]_vars

\* C9 witness: the net just imported was marked fixed, and it also has a
\* bound wire of strength STRONG or less.
C9_Witness ==
    /\ pc = "import_nets"
    /\ nd.ni >= 0 /\ nd.fixed_routing
    /\ \E w \in DOMAIN At(ctx.nets, nd.ni).wires :
           At(ctx.nets, nd.ni).wires[w].strength <= STRENGTH_STRONG

\* The wires bound to the nets that import_nets has marked fixed so far.
FixedWires ==
    UNION {DOMAIN At(ctx.nets, k).wires : k \in {n \in Indices(net_fixed) : At(net_fixed, n)}}

\* C10: while import_nets runs and after it has completed, bound_count is 1
\* at the index of every wire bound to a net marked fixed and 0 at every
\* other index; the no-overlap assertion never fails and every bound wire
\* has an index.
C10_BoundCountIsFixedWires ==
    /\ pc \notin {"assertion_failure", "out_of_range"}
    /\ pc \in {"import_nets", "alloc_buffers", "done"} =>
           /\ Size(bound_count) = NumWires
           /\ \A n \in Indices(bound_count) :
                  At(bound_count, n) = IF At(ctx.wires, n) \in FixedWires THEN 1 ELSE 0

\* C10 witness: import_nets has completed with two fixed nets, each with a
\* bound wire.
C10_Witness ==
    /\ pc = "alloc_buffers"
    /\ \E a, b \in Indices(net_fixed) :
           /\ a # b /\ At(net_fixed, a) /\ At(net_fixed, b)
           /\ At(ctx.nets, a).wires # EmptyMap /\ At(ctx.nets, b).wires # EmptyMap

\* ------------------------------------------------ properties of operator()
\* The wires reached from the wires S over the pips ps.
RECURSIVE ReachVia(_, _)
ReachVia(ps, S) ==
    LET T == S \cup {At(ctx.pips, p).dst : p \in {q \in ps : At(ctx.pips, q).src \in S}}
    IN  IF T = S THEN S ELSE ReachVia(ps, T)

\* The pips bound to net ni.
BoundPips(ni) == {ni.wires[w].pip : w \in DOMAIN ni.wires} \ {NoPip}

\* Every sink of net ni is reached from its driver over the pips bound to it.
Routed(ni) ==
    \A u \in Indices(ni.users) :
        getNetinfoSinkWire(ni, At(ni.users, u)) \in ReachVia(BoundPips(ni), {ni.driver.wire})

\* C1: when operator() has returned true, the pips bound to every driven net
\* that is not fixed reach each of its sinks from its driver, and bound_count
\* is at most 1 at every node.
C1_RoutedOnSuccess ==
    ret = "true" =>
        /\ \A k \in Indices(ctx.nets) :
               (~At(net_fixed, k) /\ At(ctx.nets, k).driver.cell) => Routed(At(ctx.nets, k))
        /\ \A n \in Indices(bound_count) : At(bound_count, n) <= 1

\* ------------------------------------------------- properties of the arbiter
\* The tiles of a box.
BoxCells(box) == {<<x, y>> : x \in box.x0..box.x1, y \in box.y0..box.y1}

\* The tiles whose cell of grid2net holds v.
CellsHolding(v) ==
    {t \in (0..(width - 1)) \X (0..(height - 1)) : At(grid2net, t[2] * width + t[1]) = v}

Allocated == pc \in {"done", "scheduler", "checked"}

\* C5: once alloc_buffers has completed, every cell of grid2net holds -1 or
\* the id of an occupied slot, and the cells holding a slot id are exactly the
\* bounding box of the net in that slot; no cell holds the id of a free slot.
C5_GridMatchesSlots ==
    Allocated =>
        \A v \in {At(grid2net, k) : k \in Indices(grid2net)} \ {-1} :
            /\ v \in 0..(max_nets_in_flight - 1)
            /\ At(net_slots, v).net_idx # -1
            /\ At(net_slots, v).net_idx \in DOMAIN flight
            /\ CellsHolding(v) = BoxCells(flight[At(net_slots, v).net_idx])

InFlightSlots == UsedSlots \ FreeSlots
SlotBox(s) == flight[At(net_slots, s).net_idx]

\* The slots that this step fills, and whether this step found a stamped
\* cell in the box of the net it fills slot s with.
Admitted == {s \in UsedSlots : At(net_slots, s).net_idx = -1 /\ At(net_slots', s).net_idx # -1}
OverStamped(s) ==
    \E t \in BoxCells(flight'[At(net_slots', s).net_idx]) :
        At(grid2net, t[2] * width + t[1]) # -1

\* C6: the bounding boxes of two nets in flight share no tile, and no step
\* admits a net whose box holds a stamped cell.
C6_InFlightBoxesDisjoint ==
    /\ [](\A s, t \in InFlightSlots : s # t => BoxCells(SlotBox(s)) \cap BoxCells(SlotBox(t)) = {})
    /\ [][\A s \in Admitted : ~OverStamped(s)]_vars

\* C6 witness: two nets are in flight, their boxes stamped with their slots,
\* and a box that covers a stamped cell is not clear.
C6_Witness ==
    /\ pc = "scheduler"
    /\ Cardinality(InFlightSlots) = 2
    /\ \A s \in InFlightSlots : CellsHolding(s) = BoxCells(SlotBox(s))
    /\ \E bb \in NetBoxes :
           /\ \E s \in InFlightSlots : BoxCells(bb) \cap BoxCells(SlotBox(s)) # {}
           /\ check_region(grid2net, width, height, bb, -1) = "false"

\* C7: a call of check_region on a box inside the grid returns true exactly
\* when every cell of the box holds the value, false otherwise, and leaves
\* grid2net as it was.
C7_CheckRegionExact ==
    /\ [](call.caller = "check" /\ InGrid(call.box) =>
            /\ call.result \in {"true", "false"}
            /\ call.result = "true" <=>
                   \A t \in BoxCells(call.box) : At(grid2net, t[2] * width + t[1]) = call.value)
    /\ [][call'.caller = "check" => grid2net' = grid2net]_vars

\* C7 witness: check_region has returned false for a value on a box of
\* several tiles whose first cell holds the value and a later one does not.
C7_Witness ==
    /\ call.caller = "check" /\ InGrid(call.box) /\ call.result = "false"
    /\ call.box.x0 < call.box.x1
    /\ At(grid2net, call.box.y0 * width + call.box.x0) = call.value
    /\ call.value # -1

\* --------------------------------------------- properties of the rip-up
\* The wires and pips bound to net ni.
WiresOf(ni) == DOMAIN ni.wires
\* Nothing is bound to net k of context c any longer, and what was bound to
\* ni is available again.
Unbound(c, k, ni) ==
    /\ At(c.nets, k).wires = EmptyMap
    /\ \A w \in WiresOf(ni) : c.wavail[w]
    /\ \A p \in BoundPips(ni) : At(c.pips, p).avail
\* What is bound to net k is the same in context c as in context d.
SameBindings(c, d, k) ==
    /\ At(c.nets, k) = At(d.nets, k)
    /\ \A w \in WiresOf(At(d.nets, k)) : c.wavail[w] = d.wavail[w]
    /\ \A p \in BoundPips(At(d.nets, k)) : At(c.pips, p).avail = At(d.pips, p).avail

\* C11: an iteration of import_nets for a net that has bound wires and is
\* not marked fixed unbinds all of its wires and pips; for a net marked
\* fixed or without bound wires it changes no binding at all; and no
\* iteration changes what is bound to another net, nor, when the net is not
\* marked fixed, any bound_count.
C11_RipUpOnlyUnfixedRouting ==
    [][Importing =>
          /\ (WiresOf(ThisNet) # {} /\ ~nd'.fixed_routing) => Unbound(ctx', i, ThisNet)
          /\ (WiresOf(ThisNet) = {} \/ nd'.fixed_routing) => ctx' = ctx
          /\ \A k \in Indices(ctx.nets) \ {i} : SameBindings(ctx', ctx, k)
          /\ ~nd'.fixed_routing => bound_count' = bound_count]_vars

\* C11 witness: a net that is not marked fixed has just been ripped up (a
\* pip and its destination wire are available although build_graph, which
\* ran while they were bound, made no edge of them) next to a net marked
\* fixed that still has its wire, counted once.
C11_Witness ==
    /\ pc = "import_nets"
    /\ nd.ni >= 0 /\ ~nd.fixed_routing
    /\ \E p \in Indices(ctx.pips) :
           /\ Usable(p)
           /\ \A e \in Indices(edge_pip) : At(edge_pip, e) # p
    /\ \E k \in Indices(net_fixed) :
           /\ At(net_fixed, k)
           /\ \E w \in WiresOf(At(ctx.nets, k)) :
                  ~ctx.wavail[w] /\ At(bound_count, IndexOfWire(w)) = 1

\* ------------------------------------------- properties of the net data
\* The net import_nets imported last, and the bel locations of its driver
\* (when it has one) and of its users.
Imported == nd.ni >= 0
LastNet == At(ctx.nets, nd.ni)
EndpointLocs(ni) ==
    (IF ni.driver.cell THEN {getBelLocation(ni.driver)} ELSE {})
        \cup {getBelLocation(At(ni.users, k)) : k \in Indices(ni.users)}
\* bb is the smallest rectangle that holds the locations L.
IsHull(bb, L) ==
    /\ \A l \in L : bb.x0 <= l.x /\ l.x <= bb.x1 /\ bb.y0 <= l.y /\ l.y <= bb.y1
    /\ \E l \in L : l.x = bb.x0
    /\ \E l \in L : l.x = bb.x1
    /\ \E l \in L : l.y = bb.y0
    /\ \E l \in L : l.y = bb.y1

\* C12: the bounding box import_nets computes for a net with an endpoint is
\* the smallest rectangle holding the bel locations of its driver and its
\* users, so x0 <= x1 and y0 <= y1, and the net is flagged undriven exactly
\* when it has no driver cell.
C12_BoxIsHullUndrivenIsNoDriver ==
    Imported =>
        /\ EndpointLocs(LastNet) # {} =>
               /\ IsHull(nd.bb, EndpointLocs(LastNet))
               /\ nd.bb.x0 <= nd.bb.x1 /\ nd.bb.y0 <= nd.bb.y1
        /\ nd.undriven <=> ~LastNet.driver.cell

\* ---------------------------------------------- properties of mark_region
\* The cell of tile (x, y) in grid g.
Cell(g, x, y) == At(g, y * width + x)
Tiles == (0..(width - 1)) \X (0..(height - 1))

\* C13: a call of mark_region on a box inside the grid with value v ends
\* normally, leaves v in every cell of the box and every other cell as it
\* was; check_region on the same box and value is then true, and marking
\* again changes nothing.
C13_MarkRegionExact ==
    [][call'.caller = "mark" /\ InGrid(call'.box) =>
          /\ call'.result = "ok"
          /\ Size(grid2net') = Size(grid2net)
          /\ \A t \in Tiles :
                 Cell(grid2net', t[1], t[2]) =
                     IF t \in BoxCells(call'.box) THEN call'.value
                     ELSE Cell(grid2net, t[1], t[2])
          /\ check_region(grid2net', width, height, call'.box, call'.value) = "true"
          /\ mark_region(grid2net', width, height, call'.box, call'.value)
                 = [grid |-> grid2net', outcome |-> "ok"]]_vars

\* C13 witness: mark_region has written a slot id into a box of two rows
\* inside the grid, next to a cell that holds something else.
C13_Witness ==
    /\ pc = "marked" /\ call.caller = "mark" /\ InGrid(call.box)
    /\ call.box.y0 < call.box.y1
    /\ call.value >= 0
    /\ \A t \in BoxCells(call.box) : Cell(grid2net, t[1], t[2]) = call.value
    /\ \E t \in Tiles \ BoxCells(call.box) : Cell(grid2net, t[1], t[2]) # call.value

\* ---------------------------------------------- properties of prefix_sum
\* The sum of the first n entries of v, exactly.
RECURSIVE SumFirst(_, _)
SumFirst(v, n) == IF n <= 0 THEN Zero ELSE Plus(SumFirst(v, n - 1), At(v, n - 1))

\* This step is a call of prefix_sum with a count within the buffer.
SumCalled == sum_call.outcome = "none" /\ sum_call'.outcome # "none"
CountInRange == sum_call'.count <= Size(queue_count)
\* No sum of the call exceeds what a uint32_t holds.
NoOverflow == SumFirst(queue_count, sum_call'.count).hi < Half

\* C14: prefix_sum(in, count) ends normally, puts into every in[k] with
\* k < count the sum of the original in[0..k] (in uint32_t arithmetic),
\* leaves the entries from count on as they were, and returns the sum of the
\* original first count entries, 0 when count <= 0.  When no sum overflows,
\* the sums are the exact ones, in[0..count) does not decrease, and its last
\* entry is the value returned.
C14_PrefixSumInclusive ==
    [][SumCalled /\ CountInRange =>
          /\ sum_call'.outcome = "ok"
          /\ Size(queue_count') = Size(queue_count)
          /\ \A k \in Indices(queue_count) :
                 At(queue_count', k) =
                     IF k < sum_call'.count THEN ToUInt32(SumFirst(queue_count, k + 1))
                     ELSE At(queue_count, k)
          /\ sum_call'.returned = ToUInt32(SumFirst(queue_count, sum_call'.count))
          /\ sum_call'.count <= 0 => sum_call'.returned = Zero
          /\ NoOverflow =>
                 /\ sum_call'.returned = SumFirst(queue_count, sum_call'.count)
                 /\ \A k \in Indices(queue_count) :
                        k < sum_call'.count =>
                            /\ At(queue_count', k) = SumFirst(queue_count, k + 1)
                            /\ k > 0 => LessEq(At(queue_count', k - 1), At(queue_count', k))
                 /\ sum_call'.count > 0 =>
                        At(queue_count', sum_call'.count - 1) = sum_call'.returned]_vars

\* C14 witness: prefix_sum has summed the first two of three counts; the
\* second entry is the total returned, larger than the first, and the
\* third count, not zero, is not part of it.
C14_Witness ==
    /\ sum_call.outcome = "ok" /\ sum_call.count = 2 /\ Size(queue_count) = 3
    /\ Less(Zero, At(queue_count, 0))
    /\ Less(At(queue_count, 0), At(queue_count, 1))
    /\ At(queue_count, 1) = sum_call.returned
    /\ At(queue_count, 2) \in {U32(0, 1), U32(0, 2)}

\* --------------------------------------------- properties of the indexing
\* C15: after build_graph the k-th wire of the database has index k,
\* wire_to_index and wire_data are inverses of each other over all W wires,
\* wire_x, wire_y, current_cost and bound_count have W entries each, and
\* every current_cost is inf_cost.
C15_DenseIndices ==
    GraphBuilt =>
        /\ DOMAIN wire_to_index = {At(ctx.wires, k) : k \in Indices(ctx.wires)}
        /\ Size(wire_data) = NumWires
        /\ \A k \in Indices(ctx.wires) :
               /\ wire_to_index[At(ctx.wires, k)] = k
               /\ At(wire_data, k).w = At(ctx.wires, k)
        /\ \A w \in DOMAIN wire_to_index : At(wire_data, wire_to_index[w]).w = w
        /\ \A n \in Indices(wire_data) : wire_to_index[At(wire_data, n).w] = n
        /\ Size(wire_x) = NumWires /\ Size(wire_y) = NumWires
        /\ Size(current_cost) = NumWires /\ Size(bound_count) = NumWires
        /\ \A n \in Indices(current_cost) : At(current_cost, n) = inf_cost

\* C15 witness: build_graph has indexed several wires; the first one, whose
\* handle is not 0, has index 0, and the last one has cost inf_cost.
C15_Witness ==
    /\ GraphBuilt
    /\ NumWires >= 2
    /\ At(ctx.wires, 0) # 0 /\ wire_to_index[At(ctx.wires, 0)] = 0
    /\ At(current_cost, NumWires - 1) = inf_cost

====
